---- MODULE Spec2Model ----
(***************************************************************************)
(* A model of joshdk/aws-console: the pipeline that turns AWS credentials  *)
(* into a login URL for the AWS Console.                                    *)
(*                                                                         *)
(*   credentials.FromReader / FromConfig  -> base credentials              *)
(*   credentials.FederateUser             -> temporary credentials         *)
(*   cmd.resolveLocationAlias             -> destination URL               *)
(*   console.GenerateLoginURL             -> signin token, login URL       *)
(*                                                                         *)
(* Strings are TLA+ strings.  A JSON object is a function from the keys    *)
(* that are present to their values, so that an absent key and a key with  *)
(* an empty value are different documents.                                 *)
(***************************************************************************)
EXTENDS Integers, Sequences, FiniteSets, TLC

VARIABLES
    flags,          \* the command line: cmd.flags, set before RunE starts
    stdin,          \* the JSON document on standard input
    config,         \* what the AWS shared configuration yields for the profile
    pc,             \* the position of RunE
    credCalls,      \* the calls of FromReader and FromConfig, in order
    partitionInfo,  \* what ResolveRegionPartition returned, Nil before its call
    urlCall,        \* a call of urlParams on its own: arguments and results
    roundTrip,      \* the HTTP round trip of GenerateLoginURL while it is under way
    creds,          \* RunE's creds variable
    region,         \* RunE's region variable
    location,       \* RunE's location variable
    fedCall,        \* the call of FederateUser: arguments and results
    stsCalls,       \* the GetFederationToken requests sent, in order
    genCall,        \* the call of GenerateLoginURL: arguments and results
    httpRequests,   \* the HTTP requests sent to the federation endpoint, in order
    err,            \* the error RunE returned ("" for none)
    sink            \* what was handed to the output sink

vars == <<flags, stdin, config, pc, credCalls, partitionInfo, urlCall, roundTrip,
          creds, region, location, fedCall, stsCalls, genCall, httpRequests, err,
          sink>>

----------------------------------------------------------------------------
(* Values *)

\* A pointer that is nil, and a result that does not exist.
Nil == [nil |-> TRUE]

\* The zero value of aws.Credentials, restricted to the fields the program uses.
ZeroCredentials == [AccessKeyID |-> "", SecretAccessKey |-> "", SessionToken |-> ""]

\* The JSON keys of processcreds.CredentialProcessResponse's string fields,
\* and the struct field each is decoded into.
CredKeys == {"AccessKeyId", "SecretAccessKey", "SessionToken"}

FieldOf(key) ==
    CASE key = "AccessKeyId"     -> "AccessKeyID"
      [] key = "SecretAccessKey" -> "SecretAccessKey"
      [] key = "SessionToken"    -> "SessionToken"

\* A JSON value that is not a string (a number, say) where a string field is
\* expected: encoding/json skips the field and reports an UnmarshalTypeError
\* once the rest of the document has been decoded.
NotAString == "<not a JSON string>"

----------------------------------------------------------------------------
(* The documents read from standard input *)

\* The number of distinct non-empty values a member of a document may hold.
NumValues == 1

\* The i-th value of the member key of the object tag: the values of the
\* nested and of the top-level object differ, and so do those of two members.
Val(tag, key, i) == tag \o "." \o key \o "/" \o ToString(i)

\* The objects over CredKeys: every key absent, empty, a value or of the wrong
\* type.
ObjectsOf(tag) ==
    UNION { { [k \in D |-> IF c[k] \in 1..NumValues THEN Val(tag, k, c[k])
                           ELSE IF c[k] = 0 THEN "" ELSE NotAString] :
                c \in [D -> (-1)..NumValues] } : D \in SUBSET CredKeys }

\* A document: malformed JSON, or an object with the credential keys at its top
\* level (top) and under its "Credentials" key (cred), which may be absent or
\* not an object.
ObjectDoc(top, kind, cred) ==
    [syntax |-> TRUE, top |-> top, credKind |-> kind, cred |-> cred]

MalformedDoc ==
    [syntax |-> FALSE, top |-> [k \in {} |-> ""], credKind |-> "absent",
     cred |-> [k \in {} |-> ""]]

AllDocs ==
    {MalformedDoc}
    \cup { ObjectDoc(t, "object", c) : t \in ObjectsOf("top"), c \in ObjectsOf("Credentials") }
    \cup { ObjectDoc(t, k, [x \in {} |-> ""]) : t \in ObjectsOf("top"), k \in {"absent", "other"} }

----------------------------------------------------------------------------
(* encoding/json, as FromReader uses it *)

\* Decoding a JSON object into a struct of string fields that already holds
\* `into`: a key that is present with a string value is stored, a key that is
\* absent leaves the field as it was, a value of the wrong type leaves the field
\* as it was and makes the decoding report an error at its end.
DecodeFields(obj, into) ==
    [val |-> [f \in DOMAIN into |->
                LET ks == {k \in DOMAIN obj : FieldOf(k) = f /\ obj[k] # NotAString}
                IN  IF ks = {} THEN into[f] ELSE obj[CHOOSE k \in ks : TRUE]],
     err |-> \E k \in DOMAIN obj : obj[k] = NotAString]

\* json.Unmarshal(body, &result): result is struct{ Credentials ... }.  Malformed
\* JSON is rejected before anything is stored.
UnmarshalResult(doc, into) ==
    IF ~doc.syntax THEN [val |-> into, err |-> TRUE]
    ELSE CASE doc.credKind = "absent" -> [val |-> into, err |-> FALSE]
           [] doc.credKind = "other"  -> [val |-> into, err |-> TRUE]
           [] doc.credKind = "object" -> DecodeFields(doc.cred, into)

\* json.Unmarshal(body, &result.Credentials): the top-level keys are decoded
\* into the same struct value; the "Credentials" key is no field of it and is
\* ignored.
UnmarshalCredentials(doc, into) ==
    IF ~doc.syntax THEN [val |-> into, err |-> TRUE]
    ELSE DecodeFields(doc.top, into)

HasKeys(c) == c.AccessKeyID # "" /\ c.SecretAccessKey # ""

Returned(c) ==
    [AccessKeyID |-> c.AccessKeyID, SecretAccessKey |-> c.SecretAccessKey,
     SessionToken |-> c.SessionToken]

ErrParse == "failed to parse credentials"

\* A mutant of FromReader: the flat shape is tried before the nested one.
FromReaderFlatFirst(doc) ==
    LET first  == UnmarshalCredentials(doc, ZeroCredentials)
        second == UnmarshalResult(doc, first.val)
    IN  IF ~first.err /\ HasKeys(first.val)
        THEN [creds |-> Returned(first.val), err |-> ""]
        ELSE IF ~second.err /\ HasKeys(second.val)
        THEN [creds |-> Returned(second.val), err |-> ""]
        ELSE [creds |-> Nil, err |-> ErrParse]

\* credentials.FromReader.  Both attempts decode into the one variable result,
\* so the second starts from what the first has left in result.Credentials.
FromReader(doc) ==
    LET first  == UnmarshalResult(doc, ZeroCredentials)
        second == UnmarshalCredentials(doc, first.val)
    IN  IF ~first.err /\ HasKeys(first.val)
        THEN [creds |-> Returned(first.val), err |-> ""]
        ELSE IF ~second.err /\ HasKeys(second.val)
        THEN [creds |-> Returned(second.val), err |-> ""]
        ELSE [creds |-> Nil, err |-> ErrParse]

----------------------------------------------------------------------------
(* time.Duration *)

\* A time.Duration is an int64 count of nanoseconds.  Its magnitude is kept as
\* whole seconds, in two digits of base 2^16 (hi, lo), and the nanoseconds
\* below a second, since the seconds of a duration need more bits than the
\* integers of the checker have.
TwoPow16 == 2^16

NanosPerSecond == 1000000000

MaxInt32 == 2147483647

MinInt32 == (-MaxInt32) - 1

Dur(neg, hi, lo, nsec) == [neg |-> neg, hi |-> hi, lo |-> lo, nsec |-> nsec]

SecondsDur(n) == Dur(FALSE, n \div TwoPow16, n % TwoPow16, 0)

ZeroDuration == SecondsDur(0)

\* minDuration: 15 * time.Minute.
MinDurationSeconds == 900

MinDuration == SecondsDur(MinDurationSeconds)

\* duration < minDuration
BelowMinDuration(d) ==
    \/ d.neg
    \/ d.hi = 0 /\ d.lo < MinDurationSeconds

\* The exponent e of a count of seconds of at least 2^16: 2^e <= seconds < 2^(e+1).
Exponent(d) == 16 + (CHOOSE e \in 0..17 : 2^e <= d.hi /\ d.hi < 2^(e + 1))

\* Duration.Seconds() is float64(sec) + float64(nsec)/1e9, rounded to the 53
\* bits of a float64.  From 2^24 seconds on the spacing of the float64s is
\* more than two nanoseconds, and a duration whose nanoseconds come within half
\* that spacing of the next second yields that next second exactly.
RoundsToNextSecond(d) ==
    /\ d.nsec > 0
    /\ d.hi >= 2^8
    /\ NanosPerSecond - d.nsec <= NanosPerSecond \div 2^(53 - Exponent(d))

\* The whole number int(duration.Seconds()) converts the float64 to: the
\* fraction is cut off, in a count [neg, hi, lo] of seconds.
WholeSeconds(d) ==
    LET up  == RoundsToNextSecond(d)
        lo1 == IF up THEN d.lo + 1 ELSE d.lo
        mag == [hi |-> d.hi + lo1 \div TwoPow16, lo |-> lo1 % TwoPow16]
    IN  [neg |-> d.neg /\ (mag.hi # 0 \/ mag.lo # 0), hi |-> mag.hi, lo |-> mag.lo]

\* The seconds of a duration with the nanoseconds cut off, as exact integer
\* division gives them: what "the duration in whole seconds" means.
TruncatedSeconds(d) ==
    [neg |-> d.neg /\ (d.hi # 0 \/ d.lo # 0), hi |-> d.hi, lo |-> d.lo]

\* strconv.Itoa of a count of seconds held in an int (64 bits on every
\* released target): its decimal numeral.
Pad6(n) ==
    LET s == ToString(n)
    IN  CASE n < 10      -> "00000" \o s
          [] n < 100     -> "0000" \o s
          [] n < 1000    -> "000" \o s
          [] n < 10000   -> "00" \o s
          [] n < 100000  -> "0" \o s
          [] OTHER       -> s

Itoa(v) ==
    LET a        == v.hi \div 1000
        b        == v.hi % 1000
        \* hi * 65536 + lo = a * 65536000 + b * 65536 + lo
        low      == a * 536000 + b * 65536 + v.lo
        millions == a * 65 + low \div 1000000
        units    == low % 1000000
        digits   == IF millions = 0 THEN ToString(units)
                    ELSE ToString(millions) \o Pad6(units)
    IN  IF v.neg THEN "-" \o digits ELSE digits

\* int32(f) of a float64 that no int32 can hold: the Go specification leaves the
\* result to the implementation.  The outcomes: the smallest int32 (amd64), the
\* largest (arm64), the low 32 bits of the integer.
OverflowOutcomes == {"min", "max", "wrap"}

WrappedInt32(v) ==
    LET h == v.hi % TwoPow16
    IN  IF h >= 2^15 THEN (h - TwoPow16) * TwoPow16 + v.lo ELSE h * TwoPow16 + v.lo

\* int32(duration.Seconds()) for a duration that is not negative.
Int32Seconds(d, overflow) ==
    LET v == WholeSeconds(d)
    IN  IF v.hi < 2^15 THEN v.hi * TwoPow16 + v.lo
        ELSE CASE overflow = "min"  -> MinInt32
               [] overflow = "max"  -> MaxInt32
               [] overflow = "wrap" -> WrappedInt32(v)

----------------------------------------------------------------------------
(* credentials.FederateUser *)

IsZero(d) == d.hi = 0 /\ d.lo = 0 /\ d.nsec = 0

\* A mutant of ClampDuration: every duration below the minimum is raised, the
\* zero duration too.
ClampDurationAlways(d) == IF BelowMinDuration(d) THEN MinDuration ELSE d

\* if duration != 0 && duration < minDuration { duration = minDuration }
ClampDuration(d) == IF ~IsZero(d) /\ BelowMinDuration(d) THEN MinDuration ELSE d

\* The sts.GetFederationTokenInput: DurationSeconds is a pointer, left nil when
\* the clamped duration is zero.
FederationInput(name, policy, duration, overflow) ==
    LET d == ClampDuration(duration)
    IN  [Name |-> name,
         PolicyArns |-> <<policy>>,
         DurationSeconds |-> IF ~IsZero(d) THEN [value |-> Int32Seconds(d, overflow)]
                             ELSE Nil]

\* What the Security Token Service answers to GetFederationToken: temporary
\* credentials, which carry a session token, or an error.
MintedCredentials ==
    [AccessKeyID |-> "ASIAFEDERATED", SecretAccessKey |-> "federated-secret",
     SessionToken |-> "federated-token"]

StsReplies ==
    { [err |-> "", creds |-> MintedCredentials],
      [err |-> "AccessDenied: not authorized to perform sts:GetFederationToken",
       creds |-> Nil] }

\* A mutant of FederateUser: the test of the session token is the wrong way
\* round.
FederateUserInverted(c, rgn, name, policy, duration, userAgent, reply, overflow) ==
    IF c.SessionToken = "" THEN [creds |-> c, err |-> "", requests |-> <<>>]
    ELSE [creds |-> IF reply.err # "" THEN Nil ELSE Returned(reply.creds),
          err |-> reply.err,
          requests |-> << [operation |-> "GetFederationToken",
                           signedWith |-> c, region |-> rgn, userAgent |-> userAgent,
                           input |-> FederationInput(name, policy, duration, overflow)] >>]

\* A mutant of FederateUser: a call that fails is made once more.
FederateUserRetrying(c, rgn, name, policy, duration, userAgent, reply, overflow) ==
    LET request == [operation |-> "GetFederationToken",
                    signedWith |-> c, region |-> rgn, userAgent |-> userAgent,
                    input |-> FederationInput(name, policy, duration, overflow)]
    IN  IF c.SessionToken # "" THEN [creds |-> c, err |-> "", requests |-> <<>>]
        ELSE IF reply.err # ""
        THEN [creds |-> Nil, err |-> reply.err, requests |-> <<request, request>>]
        ELSE [creds |-> Returned(reply.creds), err |-> "", requests |-> <<request>>]

\* A mutant of FederateUser: the credentials of the answer are dropped and
\* those of the user returned.
FederateUserKeepsInput(c, rgn, name, policy, duration, userAgent, reply, overflow) ==
    IF c.SessionToken # "" THEN [creds |-> c, err |-> "", requests |-> <<>>]
    ELSE [creds |-> IF reply.err # "" THEN Nil ELSE c,
          err |-> reply.err,
          requests |-> << [operation |-> "GetFederationToken",
                           signedWith |-> c, region |-> rgn, userAgent |-> userAgent,
                           input |-> FederationInput(name, policy, duration, overflow)] >>]

\* A mutant of FederateUser: the session token of the answer is not copied.
FederateUserDropsToken(c, rgn, name, policy, duration, userAgent, reply, overflow) ==
    IF c.SessionToken # "" THEN [creds |-> c, err |-> "", requests |-> <<>>]
    ELSE [creds |-> IF reply.err # "" THEN Nil
                    ELSE [AccessKeyID |-> reply.creds.AccessKeyID,
                          SecretAccessKey |-> reply.creds.SecretAccessKey,
                          SessionToken |-> ""],
          err |-> reply.err,
          requests |-> << [operation |-> "GetFederationToken",
                           signedWith |-> c, region |-> rgn, userAgent |-> userAgent,
                           input |-> FederationInput(name, policy, duration, overflow)] >>]

\* credentials.FederateUser, with the answer of the service and the outcome of
\* an overflowing conversion as inputs.  requests are the calls it makes.
FederateUser(c, rgn, name, policy, duration, userAgent, reply, overflow) ==
    IF c.SessionToken # "" THEN [creds |-> c, err |-> "", requests |-> <<>>]
    ELSE [creds |-> IF reply.err # "" THEN Nil ELSE Returned(reply.creds),
          err |-> reply.err,
          requests |-> << [operation |-> "GetFederationToken",
                           signedWith |-> c, region |-> rgn, userAgent |-> userAgent,
                           input |-> FederationInput(name, policy, duration, overflow)] >>]

\* A mutant of FederateUserLeaves: the credentials of the answer are written
\* into the credentials FederateUser was given.
FederateUserLeavesAnswer(c, reply) ==
    IF c.SessionToken = "" /\ reply.err = "" THEN Returned(reply.creds) ELSE c

\* What the credentials FederateUser was given a pointer to hold when it
\* returns: it reads their three fields and assigns to none of them.
FederateUserLeaves(c, reply) == c

----------------------------------------------------------------------------
(* console.GenerateLoginURL *)

federationURL == "https://signin.aws.amazon.com/federation"

\* json.Marshal of the map sessionCreds: an object with its keys in sorted
\* order, as the sequence of its members.
SessionJSON(c) ==
    << <<"sessionId", c.AccessKeyID>>,
       <<"sessionKey", c.SecretAccessKey>>,
       <<"sessionToken", c.SessionToken>> >>

\* The map values of the getSigninToken call.
SigninValues(c, duration) ==
    [k \in {"Action", "Session"} \cup (IF ~IsZero(duration) THEN {"SessionDuration"} ELSE {}) |->
        CASE k = "Action"          -> "getSigninToken"
          [] k = "Session"         -> SessionJSON(c)
          [] k = "SessionDuration" -> Itoa(WholeSeconds(duration))]

\* A mutant of LoginValues: the destination and the token change places.
LoginValuesSwapped(loc, token) ==
    [Action |-> "login", Destination |-> token, SigninToken |-> loc]

\* The map values of the login URL.
LoginValues(loc, token) ==
    [Action |-> "login", Destination |-> loc, SigninToken |-> token]

\* url.Values.Encode: the parameters sorted by key, each "key=value" with the
\* value percent-encoded, joined by "&".  The encoded query is the sequence
\* of its <<key, value>> members; percent-encoding, which url.ParseQuery undoes,
\* is carried by the member.
QueryKeyOrder == <<"Action", "Destination", "Session", "SessionDuration", "SigninToken">>

Encode(values) ==
    LET Present(k) == k \in DOMAIN values
        keys == SelectSeq(QueryKeyOrder, Present)
    IN  [i \in 1..Len(keys) |-> <<keys[i], values[keys[i]]>>]

\* url.ParseQuery of an encoded query: the parameters by key.
ParseQuery(query) ==
    [k \in {query[i][1] : i \in 1..Len(query)} |->
        query[CHOOSE i \in 1..Len(query) : query[i][1] = k][2]]

\* urlParams: rawURL with the parameters as its query.
urlParams(rawURL, values) == [endpoint |-> rawURL, RawQuery |-> Encode(values)]

\* The loop "for key, value := range values { v.Set(key, value) }": the
\* url.Values v after the keys of the map were visited in the given order,
\* which Go leaves unspecified.
RECURSIVE SetAll(_, _, _)
SetAll(v, values, order) ==
    IF order = <<>> THEN v
    ELSE SetAll([k \in DOMAIN v \cup {Head(order)} |->
                    IF k = Head(order) THEN values[k] ELSE v[k]],
                values, Tail(order))

\* A mutant of urlParamsRanging: the query is written in the order in which
\* the map was visited.
urlParamsUnsorted(rawURL, values, order) ==
    [endpoint |-> rawURL,
     RawQuery |-> [i \in 1..Len(order) |-> <<order[i], values[order[i]]>>]]

\* urlParams, with the order in which the range loop visits the map as an
\* input.
urlParamsRanging(rawURL, values, order) ==
    [endpoint |-> rawURL, RawQuery |-> Encode(SetAll(<<>>, values, order))]

\* url.QueryEscape: letters, digits, "-", "_", "." and "~" stay, a space
\* becomes "+", and every other character its "%XX".  The characters of the
\* model that are escaped:
EscapeTable ==
    [c \in {" ", "%", "&", "+", "/", ":", "=", "?", "#"} |->
        CASE c = " " -> "+"
          [] c = "%" -> "%25"
          [] c = "&" -> "%26"
          [] c = "+" -> "%2B"
          [] c = "/" -> "%2F"
          [] c = ":" -> "%3A"
          [] c = "=" -> "%3D"
          [] c = "?" -> "%3F"
          [] c = "#" -> "%23"]

RECURSIVE QueryEscape(_)
QueryEscape(text) ==
    IF text = "" THEN ""
    ELSE LET c == SubSeq(text, 1, 1)
         IN  (IF c \in DOMAIN EscapeTable THEN EscapeTable[c] ELSE c)
                 \o QueryEscape(SubSeq(text, 2, Len(text)))

\* The text of an encoded query: key=value, escaped, joined by "&".
RECURSIVE QueryText(_)
QueryText(query) ==
    IF query = <<>> THEN ""
    ELSE QueryEscape(query[1][1]) \o "=" \o QueryEscape(query[1][2])
           \o (IF Len(query) = 1 THEN "" ELSE "&" \o QueryText(Tail(query)))

\* url.URL.String of the URL urlParams returns.
String(u) ==
    IF u.RawQuery = <<>> THEN u.endpoint ELSE u.endpoint \o "?" \o QueryText(u.RawQuery)

\* The answers of the federation endpoint to the getSigninToken request: no
\* answer at all (a transport error, or the 15 second timeout firing), or a
\* status and a body.  A body is malformed or a JSON object, or its read
\* fails before a JSON value is complete.
Body(obj) == [syntax |-> TRUE, obj |-> obj, readErr |-> ""]

MalformedBody == [syntax |-> FALSE, obj |-> [k \in {} |-> ""], readErr |-> ""]

\* timeout: 15 * time.Second.
Timeout == 15

DeadlineExceeded == "context deadline exceeded"

\* The body whose read the context of the request ended.
CutBody == [syntax |-> FALSE, obj |-> [k \in {} |-> ""], readErr |-> DeadlineExceeded]

Bodies ==
    { Body([SigninToken |-> "TOK123"]),
      Body([SigninToken |-> ""]),
      Body([SigninToken |-> NotAString]),
      Body([k \in {} |-> ""]),
      MalformedBody,
      CutBody }

StatusOK == 200

HttpReplies ==
    { [err |-> e, StatusCode |-> 0, Status |-> "", body |-> MalformedBody] :
        e \in {DeadlineExceeded, "connection refused"} }
    \cup { [err |-> "", StatusCode |-> StatusOK, Status |-> "200 OK", body |-> b] : b \in Bodies }
    \cup { [err |-> "", StatusCode |-> 403, Status |-> "403 Forbidden",
            body |-> Body([k \in {} |-> ""])] }
    \cup { [err |-> "", StatusCode |-> 400, Status |-> "400 Bad Request",
            body |-> Body([SigninToken |-> "TOK123"])] }

\* extractToken: the SigninToken member of the body; a member that is absent
\* leaves the field of the response struct at its zero value.
extractToken(body) ==
    IF body.readErr # "" THEN [token |-> "", err |-> body.readErr]
    ELSE IF ~body.syntax THEN [token |-> "", err |-> "invalid character"]
    ELSE IF "SigninToken" \notin DOMAIN body.obj THEN [token |-> "", err |-> ""]
    ELSE IF body.obj.SigninToken = NotAString
         THEN [token |-> "", err |-> "json: cannot unmarshal number into Go struct field"]
    ELSE [token |-> body.obj.SigninToken, err |-> ""]

\* The request GenerateLoginURL sends.
SigninRequest(c, duration, userAgent) ==
    [method |-> "GET", url |-> urlParams(federationURL, SigninValues(c, duration)),
     userAgent |-> userAgent]

\* A mutant of GenerateLoginURL: the status of the answer is not looked at.
GenerateLoginURLAnyStatus(c, duration, loc, userAgent, reply) ==
    LET request == SigninRequest(c, duration, userAgent)
        token   == extractToken(reply.body)
    IN  IF reply.err # ""
        THEN [url |-> Nil, err |-> reply.err, requests |-> <<request>>]
        ELSE IF token.err # ""
        THEN [url |-> Nil, err |-> token.err, requests |-> <<request>>]
        ELSE [url |-> urlParams(federationURL, LoginValues(loc, token.token)),
              err |-> "", requests |-> <<request>>]

\* console.GenerateLoginURL, with the answer of the endpoint as an input.
GenerateLoginURL(c, duration, loc, userAgent, reply) ==
    LET request == SigninRequest(c, duration, userAgent)
        token   == extractToken(reply.body)
    IN  IF reply.err # ""
        THEN [url |-> Nil, err |-> reply.err, requests |-> <<request>>]
        ELSE IF reply.StatusCode # StatusOK
        THEN [url |-> Nil, err |-> "request failed: " \o reply.Status,
              requests |-> <<request>>]
        ELSE IF token.err # ""
        THEN [url |-> Nil, err |-> token.err, requests |-> <<request>>]
        ELSE [url |-> urlParams(federationURL, LoginValues(loc, token.token)),
              err |-> "", requests |-> <<request>>]

\* What the credentials GenerateLoginURL was given a pointer to hold when it
\* returns: it copies their three fields into the map sessionCreds.
GenerateLoginURLLeaves(c, reply) == c

----------------------------------------------------------------------------
(* cmd: the alias tables *)

\* A text that may hold placeholders is the sequence of its pieces, a
\* placeholder being a piece of its own; a text that begins with "https://"
\* has that prefix as its first piece.
RegionPlaceholder == "{{.region}}"

RECURSIVE Join(_)
Join(text) == IF text = <<>> THEN "" ELSE Head(text) \o Join(Tail(text))

\* strings.ReplaceAll(text, old, new), for old a placeholder.
ReplaceAll(text, old, new) ==
    [i \in 1..Len(text) |-> IF text[i] = old THEN new ELSE text[i]]

\* strings.HasPrefix(alias, "https://")
HasPrefix(text, prefix) == Len(text) > 0 /\ text[1] = prefix

Regional(service, path) ==
    <<"https://", RegionPlaceholder, ".console.aws.amazon.com/" \o service \o "?region=",
      RegionPlaceholder, path>>

Global(rest) == <<"https://", rest>>

locations ==
    [account  |-> Global("console.aws.amazon.com/billing/home#/account"),
     billing  |-> Global("console.aws.amazon.com/billing/home"),
     console  |-> Regional("console/home", ""),
     ec2      |-> Regional("ec2/home", "#Home:"),
     ecr      |-> Regional("ecr/repositories", ""),
     eks      |-> Regional("eks/home", "#/clusters"),
     groups   |-> Global("console.aws.amazon.com/iamv2/home#/groups"),
     home     |-> Regional("console/home", ""),
     iam      |-> Global("console.aws.amazon.com/iamv2/home#/home"),
     kms      |-> Regional("kms/home", "#/kms/keys"),
     org      |-> Global("console.aws.amazon.com/organizations/v2/home/dashboard"),
     policies |-> Global("console.aws.amazon.com/iamv2/home#/policies"),
     r53      |-> Global("console.aws.amazon.com/route53/v2/hostedzones#"),
     rds      |-> Regional("rds/home", "#databases:"),
     roles    |-> Global("console.aws.amazon.com/iamv2/home#/roles"),
     s3       |-> <<"https://", "s3.console.aws.amazon.com/s3/buckets?region=",
                    RegionPlaceholder>>,
     support  |-> Global("support.console.aws.amazon.com/support/home"),
     users    |-> Global("console.aws.amazon.com/iamv2/home#/users"),
     vpn      |-> Regional("vpc/home", "#ClientVPNEndpoints:")]

\* A mutant of resolveLocationAlias: an alias that is not in the table falls
\* back to the home page of the console.
resolveLocationAliasFallback(alias, rgn) ==
    IF HasPrefix(alias, "https://")
    THEN [location |-> Join(ReplaceAll(alias, RegionPlaceholder, rgn)), ok |-> TRUE]
    ELSE IF Join(alias) \in DOMAIN locations
    THEN [location |-> Join(ReplaceAll(locations[Join(alias)], RegionPlaceholder, rgn)),
          ok |-> TRUE]
    ELSE [location |-> Join(ReplaceAll(locations["home"], RegionPlaceholder, rgn)),
          ok |-> TRUE]

resolveLocationAlias(alias, rgn) ==
    IF HasPrefix(alias, "https://")
    THEN [location |-> Join(ReplaceAll(alias, RegionPlaceholder, rgn)), ok |-> TRUE]
    ELSE IF Join(alias) \in DOMAIN locations
    THEN [location |-> Join(ReplaceAll(locations[Join(alias)], RegionPlaceholder, rgn)),
          ok |-> TRUE]
    ELSE [location |-> "", ok |-> FALSE]

policies ==
    [admin    |-> "arn:aws:iam::aws:policy/AdministratorAccess",
     all      |-> "arn:aws:iam::aws:policy/AdministratorAccess",
     billing  |-> "arn:aws:iam::aws:policy/job-function/Billing",
     readonly |-> "arn:aws:iam::aws:policy/ReadOnlyAccess",
     ro       |-> "arn:aws:iam::aws:policy/ReadOnlyAccess"]

resolvePolicyAlias(alias) ==
    IF alias \in DOMAIN policies THEN policies[alias] ELSE alias

----------------------------------------------------------------------------
(* credentials.ResolveRegionPartition *)

\* The fields of a text between its dashes.
RECURSIVE Split(_)
Split(text) ==
    LET dashes == {i \in 1..Len(text) : SubSeq(text, i, i) = "-"}
    IN  IF dashes = {} THEN <<text>>
        ELSE LET i == CHOOSE d \in dashes : \A e \in dashes : d <= e
             IN  <<SubSeq(text, 1, i - 1)>> \o Split(SubSeq(text, i + 1, Len(text)))

\* \d+ and \w+ of a regular expression, on a field: a dash is no word
\* character, and the regions of the model hold letters, digits and dashes.
IsDigits(field) ==
    /\ field # ""
    /\ \A i \in 1..Len(field) :
          SubSeq(field, i, i) \in {"0", "1", "2", "3", "4", "5", "6", "7", "8", "9"}

IsWord(field) == field # ""

\* The partitions of the endpoint resolver of the STS client, in its order:
\* the fields a region of the partition begins with (its RegionRegex is these
\* fields, then \w+, then \d+), and the endpoints it lists that its
\* expression does not match.
Partition(id, heads, endpoints) == [ID |-> id, heads |-> heads, Endpoints |-> endpoints]

partitions ==
    << Partition("aws", <<{"us", "eu", "ap", "sa", "ca", "me", "af"}>>, {"aws-global"}),
       Partition("aws-cn", <<{"cn"}>>, {}),
       Partition("aws-iso", <<{"us"}, {"iso"}>>, {}),
       Partition("aws-iso-b", <<{"us"}, {"isob"}>>, {}),
       Partition("aws-us-gov", <<{"us"}, {"gov"}>>, {}) >>

RegionRegex(p, rgn) ==
    LET fields == Split(rgn)
        n == Len(p.heads)
    IN  /\ Len(fields) = n + 2
        /\ \A i \in 1..n : fields[i] \in p.heads[i]
        /\ IsWord(fields[n + 1])
        /\ IsDigits(fields[n + 2])

canResolveEndpoint(p, rgn) == rgn \in p.Endpoints \/ RegionRegex(p, rgn)

\* sts.NewDefaultEndpointResolver().ResolveEndpoint(region, options): no region
\* is an error; the first partition that can resolve the region does, and the
\* first partition of all resolves a region that none of them knows.
ResolveEndpoint(rgn) ==
    IF Len(rgn) = 0 THEN [err |-> "MissingRegionError", PartitionID |-> ""]
    ELSE LET able == {i \in 1..Len(partitions) : canResolveEndpoint(partitions[i], rgn)}
         IN  IF able = {} THEN [err |-> "", PartitionID |-> partitions[1].ID]
             ELSE [err |-> "",
                   PartitionID |-> partitions[CHOOSE i \in able : \A j \in able : i <= j].ID]

partitionURLs ==
    [p \in {"aws", "aws-cn", "aws-us-gov"} |->
        CASE p = "aws" ->
               [consoleDomain |-> "console.aws.amazon.com",
                federationURL |-> "https://signin.aws.amazon.com/federation"]
          [] p = "aws-cn" ->
               [consoleDomain |-> "console.amazonaws.cn",
                federationURL |-> "https://signin.amazonaws.cn/federation"]
          [] p = "aws-us-gov" ->
               [consoleDomain |-> "console.amazonaws-us-gov.com",
                federationURL |-> "https://signin.amazonaws-us-gov.com/federation"]]

PartitionResult(partition, consoleDomain, federation, found) ==
    [partition |-> partition, consoleDomain |-> consoleDomain,
     federationURL |-> federation, found |-> found]

\* A mutant of ResolveRegionPartition: a partition without an entry is given
\* the URLs of the partition aws.
ResolveRegionPartitionGuessing(rgn) ==
    LET endpoint  == ResolveEndpoint(rgn)
        partition == IF endpoint.err = "" THEN endpoint.PartitionID ELSE "aws"
        urls      == IF partition \in DOMAIN partitionURLs THEN partitionURLs[partition]
                     ELSE partitionURLs["aws"]
    IN  PartitionResult(partition, urls.consoleDomain, urls.federationURL, TRUE)

ResolveRegionPartition(rgn) ==
    LET endpoint  == ResolveEndpoint(rgn)
        partition == IF endpoint.err = "" THEN endpoint.PartitionID ELSE "aws"
    IN  IF partition \in DOMAIN partitionURLs
        THEN PartitionResult(partition, partitionURLs[partition].consoleDomain,
                             partitionURLs[partition].federationURL, TRUE)
        ELSE PartitionResult("", "", "", FALSE)

\* The regions ResolveRegionPartition is asked about: no region, the
\* pseudo-region of the global endpoints, and regions built from their fields,
\* well formed or not.
Regions ==
    {"", "aws-global"}
    \cup { h \o "-" \o w \o "-" \o n :
              h \in {"us", "eu", "ap", "cn", "mars"},
              w \in {"east", "west", "northwest", "gov", "iso"},
              n \in {"1", "2", "x"} }
    \cup { "us-" \o s \o "-" \o w \o "-" \o n :
              s \in {"gov", "iso", "isob", "east"},
              w \in {"east", "west"},
              n \in {"1", "x"} }

----------------------------------------------------------------------------
(* The inputs of an invocation *)

\* The durations --duration is given: none, a negative one, ones below, at and
\* above the 15 minutes GetFederationToken asks for, one whose nanoseconds
\* round to the next second as a float64, the largest that fits an int32 of
\* seconds, the first that does not, one whose low 32 bits are small, and the
\* largest time.Duration.
Durations ==
    { ZeroDuration,
      Dur(TRUE, 0, 1, 0),
      Dur(FALSE, 0, 0, 500000000),
      SecondsDur(300),
      Dur(FALSE, 0, 899, 999999999),
      SecondsDur(900),
      SecondsDur(1800),
      SecondsDur(43200),
      Dur(FALSE, 256, 0, 999999999),
      SecondsDur(MaxInt32),
      Dur(FALSE, 32768, 0, 0),
      Dur(FALSE, 65536, 5, 0),
      Dur(FALSE, 140737, 32004, 854775807) }

Profiles == {"-", "", "production"}

RegionFlags == {"", "us-west-2", "cn-north-1", "us-gov-west-1"}

LocationFlags ==
    { <<"home">>, <<"iam">>, <<"Home">>, <<"not-a-real-alias">>,
      <<"https://", "example.com/x">>,
      <<"https://", RegionPlaceholder, ".example.com/x">> }

PolicyFlags == {"admin", "arn:aws:iam::123456789012:policy/Custom"}

\* --qr, --browser, --clipboard
SinkFlags ==
    { [qr |-> FALSE, browser |-> FALSE, clipboard |-> FALSE],
      [qr |-> FALSE, browser |-> TRUE, clipboard |-> TRUE],
      [qr |-> TRUE, browser |-> TRUE, clipboard |-> FALSE] }

UserAgent == "joshdk/aws-console"

Flags ==
    { [profile |-> p, region |-> r, location |-> l, federatePolicy |-> fp,
       federateName |-> "aws-console", duration |-> d, userAgent |-> UserAgent,
       qr |-> s.qr, browser |-> s.browser, clipboard |-> s.clipboard] :
        p \in Profiles, r \in RegionFlags, l \in LocationFlags, fp \in PolicyFlags,
        d \in Durations, s \in SinkFlags }

UserObject ==
    [AccessKeyId |-> Val("top", "AccessKeyId", 1),
     SecretAccessKey |-> Val("top", "SecretAccessKey", 1)]

RoleObject ==
    [AccessKeyId |-> Val("Credentials", "AccessKeyId", 1),
     SecretAccessKey |-> Val("Credentials", "SecretAccessKey", 1),
     SessionToken |-> Val("Credentials", "SessionToken", 1)]

NoObject == [k \in {} |-> ""]

\* The documents piped into a whole run: the output of sts assume-role, that of
\* a credential process for a user, a user's keys beside a Credentials object
\* that holds a token only, an object without keys, and malformed JSON.
PipedDocs ==
    { ObjectDoc(NoObject, "object", RoleObject),
      ObjectDoc(UserObject, "absent", NoObject),
      ObjectDoc(UserObject, "object",
                [SessionToken |-> Val("Credentials", "SessionToken", 1)]),
      ObjectDoc(NoObject, "absent", NoObject),
      MalformedDoc }

\* What config.LoadDefaultConfig and cfg.Credentials.Retrieve yield for the
\* profile: an error, or credentials and the profile's region.
NoConfig == [err |-> "", creds |-> ZeroCredentials, region |-> ""]

ConfigOutcomes ==
    { [err |-> "failed to get shared config profile", creds |-> ZeroCredentials,
       region |-> ""],
      [err |-> "",
       creds |-> [AccessKeyID |-> "AKIAUSER", SecretAccessKey |-> "user-secret",
                  SessionToken |-> ""],
       region |-> ""],
      [err |-> "",
       creds |-> [AccessKeyID |-> "AKIAUSER", SecretAccessKey |-> "user-secret",
                  SessionToken |-> ""],
       region |-> "eu-west-1"],
      [err |-> "",
       creds |-> [AccessKeyID |-> "ASIAROLE", SecretAccessKey |-> "role-secret",
                  SessionToken |-> "role-token"],
       region |-> "eu-west-1"] }

\* A mutant of FromConfig: the error of the configuration is dropped.
FromConfigIgnoringError(profile) ==
    [creds |-> config.creds, region |-> config.region, err |-> ""]

\* credentials.FromConfig
FromConfig(profile) ==
    IF config.err # "" THEN [creds |-> Nil, region |-> "", err |-> config.err]
    ELSE [creds |-> config.creds, region |-> config.region, err |-> ""]

----------------------------------------------------------------------------
(* cmd.Command: RunE *)

NoCall == [called |-> FALSE]

Init ==
    /\ flags \in Flags
    /\ IF flags.profile = "-"
       THEN stdin \in PipedDocs /\ config = NoConfig
       ELSE stdin = MalformedDoc /\ config \in ConfigOutcomes
    /\ pc = "credentials"
    /\ credCalls = <<>>
    /\ partitionInfo = Nil
    /\ urlCall = Nil
    /\ roundTrip = Nil
    /\ creds = Nil
    /\ region = ""
    /\ location = ""
    /\ fedCall = NoCall
    /\ stsCalls = <<>>
    /\ genCall = NoCall
    /\ httpRequests = <<>>
    /\ err = ""
    /\ sink = Nil

\* A mutant of SelectEntry: no profile argument reads standard input too.
SelectEntryEmptyIsStdin(profile) ==
    IF profile \in {"-", ""} THEN "FromReader" ELSE "FromConfig"

\* if flags.profile == "-": which of the two entry points RunE calls.
SelectEntry(profile) == IF profile = "-" THEN "FromReader" ELSE "FromConfig"

\* A mutant of PreferredRegion: the region of the profile comes before --region.
PreferredRegionProfileFirst(flagRegion, profileRegion) ==
    IF profileRegion # "" THEN profileRegion
    ELSE IF flagRegion # "" THEN flagRegion
    ELSE "us-east-1"

\* Set the preferred console region: the value of --region if given, the
\* value of the profile if given, us-east-1 otherwise.
PreferredRegion(flagRegion, profileRegion) ==
    IF flagRegion # "" THEN flagRegion
    ELSE IF profileRegion = "" THEN "us-east-1"
    ELSE profileRegion

\* A mutant of ObtainCredentials: RunE goes on to the location alias, and the
\* user is not federated.
ObtainCredentialsSkippingFederation ==
    /\ pc = "credentials"
    /\ LET entry == SelectEntry(flags.profile)
           r == IF entry = "FromReader"
                THEN [creds |-> FromReader(stdin).creds, region |-> "",
                      err |-> FromReader(stdin).err]
                ELSE FromConfig(flags.profile)
       IN  /\ credCalls' = Append(credCalls,
                                  IF entry = "FromReader"
                                  THEN [entry |-> entry, reader |-> "os.Stdin"]
                                  ELSE [entry |-> entry, profile |-> flags.profile])
           /\ IF r.err # ""
              THEN /\ err' = r.err
                   /\ pc' = "done"
                   /\ UNCHANGED <<creds, region>>
              ELSE /\ creds' = r.creds
                   /\ region' = PreferredRegion(flags.region, r.region)
                   /\ pc' = "location"
                   /\ UNCHANGED err
    /\ UNCHANGED <<flags, stdin, config, urlCall, roundTrip,
                   partitionInfo, location, fedCall, stsCalls,
                   genCall, httpRequests, sink>>

\* Obtain credentials from either STDIN or a named AWS cli profile, and set
\* the preferred console region.
ObtainCredentials ==
    /\ pc = "credentials"
    /\ LET entry == SelectEntry(flags.profile)
           r == IF entry = "FromReader"
                THEN [creds |-> FromReader(stdin).creds, region |-> "",
                      err |-> FromReader(stdin).err]
                ELSE FromConfig(flags.profile)
       IN  /\ credCalls' = Append(credCalls,
                                  IF entry = "FromReader"
                                  THEN [entry |-> entry, reader |-> "os.Stdin"]
                                  ELSE [entry |-> entry, profile |-> flags.profile])
           /\ IF r.err # ""
              THEN /\ err' = r.err
                   /\ pc' = "done"
                   /\ UNCHANGED <<creds, region>>
              ELSE /\ creds' = r.creds
                   /\ region' = PreferredRegion(flags.region, r.region)
                   /\ pc' = "federate"
                   /\ UNCHANGED err
    /\ UNCHANGED <<flags, stdin, config, urlCall, roundTrip,
                   partitionInfo, location, fedCall, stsCalls,
                   genCall, httpRequests, sink>>

\* Federate the user if the credentials are those of a user.
Federate ==
    /\ pc = "federate"
    /\ \E reply \in StsReplies, overflow \in OverflowOutcomes :
        LET policy == resolvePolicyAlias(flags.federatePolicy)
            r == FederateUser(creds, region, flags.federateName, policy,
                              flags.duration, flags.userAgent, reply, overflow)
        IN  /\ fedCall' = [called |-> TRUE, creds |-> creds, duration |-> flags.duration,
                           policy |-> policy, result |-> r.creds, err |-> r.err,
                           reply |-> reply, requests |-> r.requests,
                           after |-> FederateUserLeaves(creds, reply)]
            /\ stsCalls' = stsCalls \o r.requests
            /\ IF r.err # ""
               THEN err' = r.err /\ pc' = "done" /\ UNCHANGED creds
               ELSE creds' = r.creds /\ pc' = "location" /\ UNCHANGED err
    /\ UNCHANGED <<flags, stdin, config, urlCall, roundTrip,
                   credCalls, partitionInfo, region, location,
                   genCall, httpRequests, sink>>

\* The verb %q of fmt, on a text without quotes, backslashes or control
\* characters: the text in double quotes.
Quote(text) == "\"" \o text \o "\""

\* Resolve the location alias into a URL of the AWS Console.
ResolveLocation ==
    /\ pc = "location"
    /\ LET r == resolveLocationAlias(flags.location, region)
       IN  IF ~r.ok
           THEN /\ err' = "could not resolve location " \o Quote(Join(flags.location))
                /\ pc' = "done"
                /\ UNCHANGED location
           ELSE /\ location' = r.location
                /\ pc' = "login"
                /\ UNCHANGED err
    /\ UNCHANGED <<flags, stdin, config, urlCall, roundTrip,
                   credCalls, partitionInfo, creds, region,
                   fedCall, stsCalls, genCall, httpRequests, sink>>

\* Generate a login URL for the AWS Console.
GenerateURL ==
    /\ pc = "login"
    /\ \E reply \in HttpReplies :
        LET r == GenerateLoginURL(creds, flags.duration, location, flags.userAgent, reply)
        IN  /\ genCall' = [called |-> TRUE, creds |-> creds, duration |-> flags.duration,
                           location |-> location, reply |-> reply, url |-> r.url,
                           err |-> r.err, requests |-> r.requests,
                           after |-> GenerateLoginURLLeaves(creds, reply)]
            /\ httpRequests' = httpRequests \o r.requests
            /\ IF r.err # ""
               THEN err' = r.err /\ pc' = "done"
               ELSE pc' = "output" /\ UNCHANGED err
    /\ UNCHANGED <<flags, stdin, config, urlCall, roundTrip,
                   credCalls, partitionInfo, creds, region,
                   location, fedCall, stsCalls, sink>>

\* Hand the URL to the sink the flags select; every sink but printing may fail.
Output ==
    /\ pc = "output"
    /\ LET kind == IF flags.qr THEN "qr"
                   ELSE IF flags.browser THEN "browser"
                   ELSE IF flags.clipboard THEN "clipboard"
                   ELSE "print"
       IN  /\ sink' = [kind |-> kind, url |-> genCall.url]
           /\ \E e \in (IF kind = "print" THEN {""} ELSE {"", kind \o " failed"}) :
                err' = e
    /\ pc' = "done"
    /\ UNCHANGED <<flags, stdin, config, urlCall, roundTrip,
                   credCalls, partitionInfo, creds, region,
                   location, fedCall, stsCalls, genCall, httpRequests>>

Next == ObtainCredentials \/ Federate \/ ResolveLocation \/ GenerateURL \/ Output

Spec == Init /\ [][Next]_vars

\* FromReader alone, on every document.
InitReader ==
    /\ flags \in {f \in Flags : /\ f.profile = "-"
                                /\ f.region = ""
                                /\ f.location = <<"home">>
                                /\ f.federatePolicy = "admin"
                                /\ f.duration = ZeroDuration
                                /\ ~f.qr /\ ~f.browser}
    /\ stdin \in AllDocs
    /\ config = NoConfig
    /\ pc = "credentials"
    /\ credCalls = <<>>
    /\ partitionInfo = Nil
    /\ urlCall = Nil
    /\ roundTrip = Nil
    /\ creds = Nil
    /\ region = ""
    /\ location = ""
    /\ fedCall = NoCall
    /\ stsCalls = <<>>
    /\ genCall = NoCall
    /\ httpRequests = <<>>
    /\ err = ""
    /\ sink = Nil

NextReader == ObtainCredentials

SpecReader == InitReader /\ [][NextReader]_vars

\* ResolveRegionPartition alone, on every region.
InitPartition ==
    /\ flags \in {f \in Flags : /\ f.profile = ""
                                /\ f.region = ""
                                /\ f.location = <<"home">>
                                /\ f.federatePolicy = "admin"
                                /\ f.duration = ZeroDuration
                                /\ ~f.qr /\ ~f.browser}
    /\ stdin = MalformedDoc
    /\ config = NoConfig
    /\ pc = "partition"
    /\ credCalls = <<>>
    /\ partitionInfo = Nil
    /\ urlCall = Nil
    /\ roundTrip = Nil
    /\ creds = Nil
    /\ region \in Regions
    /\ location = ""
    /\ fedCall = NoCall
    /\ stsCalls = <<>>
    /\ genCall = NoCall
    /\ httpRequests = <<>>
    /\ err = ""
    /\ sink = Nil

ResolvePartition ==
    /\ pc = "partition"
    /\ partitionInfo' = ResolveRegionPartition(region)
    /\ pc' = "done"
    /\ UNCHANGED <<flags, stdin, config, urlCall, roundTrip,
                   credCalls, creds, region, location, fedCall,
                   stsCalls, genCall, httpRequests, err, sink>>

NextPartition == ResolvePartition

SpecPartition == InitPartition /\ [][NextPartition]_vars

\* urlParams alone: the parameter maps it is called with, and the orders in
\* which a map of Go may be visited.
ParamKeys == {"Action", "Destination", "SigninToken"}

ParamValues ==
    { "login",
      "https://console.aws.amazon.com/console/home?region=us-east-1#a&b=c d",
      "TOK+123%" }

Orders(keys) ==
    {o \in [1..Cardinality(keys) -> keys] : \A i, j \in DOMAIN o : o[i] = o[j] => i = j}

InitUrl ==
    /\ flags \in {f \in Flags : /\ f.profile = ""
                                /\ f.region = ""
                                /\ f.location = <<"home">>
                                /\ f.federatePolicy = "admin"
                                /\ f.duration = ZeroDuration
                                /\ ~f.qr /\ ~f.browser}
    /\ stdin = MalformedDoc
    /\ config = NoConfig
    /\ pc = "url"
    /\ credCalls = <<>>
    /\ partitionInfo = Nil
    /\ urlCall = Nil
    /\ roundTrip = Nil
    /\ creds = Nil
    /\ region = ""
    /\ location = ""
    /\ fedCall = NoCall
    /\ stsCalls = <<>>
    /\ genCall = NoCall
    /\ httpRequests = <<>>
    /\ err = ""
    /\ sink = Nil

\* One parameter map is made into a URL twice, the range loop visiting it in
\* an order of its own each time.
BuildURL ==
    /\ pc = "url"
    /\ \E keys \in SUBSET ParamKeys :
         \E values \in [keys -> ParamValues], first \in Orders(keys), second \in Orders(keys) :
            LET u1 == urlParamsRanging(federationURL, values, first)
                u2 == urlParamsRanging(federationURL, values, second)
            IN  urlCall' = [rawURL |-> federationURL, values |-> values,
                            orders |-> <<first, second>>, urls |-> <<u1, u2>>,
                            texts |-> <<String(u1), String(u2)>>]
    /\ pc' = "done"
    /\ UNCHANGED <<flags, stdin, config, credCalls, partitionInfo, roundTrip, creds,
                   region, location, fedCall, stsCalls, genCall, httpRequests, err,
                   sink>>

NextUrl == BuildURL

SpecUrl == InitUrl /\ [][NextUrl]_vars

\* The round trip of GenerateLoginURL in steps: the request is sent, the
\* status line and the headers arrive, the body is read, while the seconds of
\* the context made by context.WithTimeout pass.
InitRoundTrip ==
    /\ flags \in {f \in Flags : /\ f.region = ""
                                /\ f.location = <<"home">>
                                /\ f.federatePolicy = "admin"
                                /\ f.duration \in {ZeroDuration, MinDuration}}
    /\ IF flags.profile = "-"
       THEN stdin \in PipedDocs /\ config = NoConfig
       ELSE stdin = MalformedDoc /\ config \in ConfigOutcomes
    /\ pc = "credentials"
    /\ credCalls = <<>>
    /\ partitionInfo = Nil
    /\ urlCall = Nil
    /\ roundTrip = Nil
    /\ creds = Nil
    /\ region = ""
    /\ location = ""
    /\ fedCall = NoCall
    /\ stsCalls = <<>>
    /\ genCall = NoCall
    /\ httpRequests = <<>>
    /\ err = ""
    /\ sink = Nil

InFlight == roundTrip # Nil /\ roundTrip.phase \in {"sent", "body"}

\* GenerateLoginURL returns what it makes of the answer, its deferred cancel
\* having run.
Return(reply, timedOut) ==
    LET r == GenerateLoginURL(creds, flags.duration, location, flags.userAgent, reply)
    IN  /\ genCall' = [called |-> TRUE, creds |-> creds, duration |-> flags.duration,
                       location |-> location, reply |-> reply, url |-> r.url,
                       err |-> r.err, requests |-> r.requests,
                       after |-> GenerateLoginURLLeaves(creds, reply)]
        /\ roundTrip' = [roundTrip EXCEPT !.phase = "returned", !.cancelled = TRUE,
                                          !.timedOut = timedOut]
        /\ IF r.err # ""
           THEN err' = r.err /\ pc' = "done"
           ELSE pc' = "output" /\ UNCHANGED err
        /\ UNCHANGED <<flags, stdin, config, urlCall, credCalls, partitionInfo, creds,
                       region, location, fedCall, stsCalls, httpRequests, sink>>

\* The context is made and http.DefaultClient.Do sends the request.
StartRequest ==
    /\ pc = "login"
    /\ roundTrip' = [phase |-> "sent", elapsed |-> 0, status |-> 0, cancelled |-> FALSE,
                     timedOut |-> FALSE]
    /\ httpRequests' =
          httpRequests \o <<SigninRequest(creds, flags.duration, flags.userAgent)>>
    /\ pc' = "roundtrip"
    /\ UNCHANGED <<flags, stdin, config, urlCall, credCalls, partitionInfo, creds,
                   region, location, fedCall, stsCalls, genCall, err, sink>>

\* A second of the timeout passes while the request is in flight.
Tick ==
    /\ InFlight
    /\ roundTrip.elapsed < Timeout
    /\ roundTrip' = [roundTrip EXCEPT !.elapsed = @ + 1]
    /\ UNCHANGED <<flags, stdin, config, pc, urlCall, credCalls, partitionInfo, creds,
                   region, location, fedCall, stsCalls, genCall, httpRequests, err,
                   sink>>

\* The transport fails before an answer arrives.
Fail ==
    /\ InFlight
    /\ roundTrip.phase = "sent"
    /\ Return(CHOOSE reply \in HttpReplies : reply.err = "connection refused", FALSE)

\* The status line and the headers arrive: Do returns, and a status other
\* than 200 ends the call.
Headers ==
    /\ InFlight
    /\ roundTrip.phase = "sent"
    /\ \E reply \in HttpReplies :
         /\ reply.err = ""
         /\ IF reply.StatusCode # StatusOK
            THEN Return(reply, FALSE)
            ELSE /\ roundTrip' = [roundTrip EXCEPT !.phase = "body",
                                                   !.status = reply.StatusCode]
                 /\ UNCHANGED <<flags, stdin, config, pc, urlCall, credCalls,
                                partitionInfo, creds, region, location, fedCall,
                                stsCalls, genCall, httpRequests, err, sink>>

\* extractToken reads the body to the end of its JSON value, or to the byte
\* that makes it malformed.
BodyRead ==
    /\ InFlight
    /\ roundTrip.phase = "body"
    /\ \E reply \in HttpReplies :
         /\ reply.err = ""
         /\ reply.StatusCode = StatusOK
         /\ reply.body.readErr = ""
         /\ Return(reply, FALSE)

\* A mutant of Deadline: the timeout ends the wait for the headers only.
DeadlineHeadersOnly ==
    /\ InFlight
    /\ roundTrip.elapsed = Timeout
    /\ roundTrip.phase = "sent"
    /\ Return(CHOOSE reply \in HttpReplies : reply.err = DeadlineExceeded, TRUE)

\* The timeout fires: the context is done, which ends Do while it waits for
\* the answer and the read of the body alike.
Deadline ==
    /\ InFlight
    /\ roundTrip.elapsed = Timeout
    /\ IF roundTrip.phase = "sent"
       THEN Return(CHOOSE reply \in HttpReplies : reply.err = DeadlineExceeded, TRUE)
       ELSE Return(CHOOSE reply \in HttpReplies :
                       reply.StatusCode = StatusOK /\ reply.body = CutBody, TRUE)

NextRoundTrip ==
    \/ ObtainCredentials \/ Federate \/ ResolveLocation
    \/ StartRequest \/ Tick \/ Fail \/ Headers \/ BodyRead \/ Deadline
    \/ Output

\* Time passes, and the timer of the context fires when its time has come;
\* nothing makes the endpoint answer.
SpecRoundTrip ==
    InitRoundTrip /\ [][NextRoundTrip]_vars /\ WF_vars(Tick) /\ WF_vars(Deadline)

----------------------------------------------------------------------------
(* Properties of FromReader, checked under SpecReader *)

\* The string a JSON object holds under a key; none when the key is absent.
Member(obj, key) == IF key \in DOMAIN obj THEN obj[key] ELSE ""

WellTyped(obj) == \A k \in DOMAIN obj : obj[k] # NotAString

HoldsKeys(obj) ==
    /\ Member(obj, "AccessKeyId") \notin {"", NotAString}
    /\ Member(obj, "SecretAccessKey") \notin {"", NotAString}

\* Shape (1): a Credentials object of string members with both keys.
MatchesNested(doc) ==
    doc.syntax /\ doc.credKind = "object" /\ WellTyped(doc.cred) /\ HoldsKeys(doc.cred)

\* Shape (2): string members at the top level with both keys.
MatchesFlat(doc) == doc.syntax /\ WellTyped(doc.top) /\ HoldsKeys(doc.top)

\* The credentials an object of string members states.
ValuesOf(obj) ==
    [AccessKeyID |-> Member(obj, "AccessKeyId"),
     SecretAccessKey |-> Member(obj, "SecretAccessKey"),
     SessionToken |-> Member(obj, "SessionToken")]

ReaderReturned == flags.profile = "-" /\ pc # "credentials"

\* C2: for every document that matches shape (1) or shape (2) with a non-empty
\* access key and secret key, FromReader succeeds and returns exactly the three
\* values of that shape (of shape (1) when both match), with no session token
\* the shape does not hold.
C2_ReaderReturnsShapeValues ==
    ReaderReturned /\ (MatchesNested(stdin) \/ MatchesFlat(stdin))
        => /\ err = ""
           /\ creds = ValuesOf(IF MatchesNested(stdin) THEN stdin.cred ELSE stdin.top)

\* C3: for every document in which the Credentials object lacks the access key
\* or the secret key and the top level lacks the access key or the secret key,
\* malformed JSON included, FromReader fails with "failed to parse credentials".
C3_ReaderFailsWithoutKeys ==
    LET nestedLacks == ~(stdin.syntax /\ stdin.credKind = "object" /\ HoldsKeys(stdin.cred))
        flatLacks   == ~(stdin.syntax /\ HoldsKeys(stdin.top))
    IN  (ReaderReturned /\ nestedLacks /\ flatLacks) => (err = ErrParse /\ creds = Nil)

\* C4: for a document that matches both shapes, FromReader returns the values
\* of the nested Credentials object, never those of the top level.
C4_NestedShapeFirst ==
    ReaderReturned /\ MatchesNested(stdin) /\ HoldsKeys(stdin.top)
        => err = "" /\ creds = ValuesOf(stdin.cred)

C4_Witness ==
    /\ ReaderReturned
    /\ MatchesNested(stdin) /\ MatchesFlat(stdin)
    /\ creds = ValuesOf(stdin.cred)
    /\ creds # ValuesOf(stdin.top)

----------------------------------------------------------------------------
(* Properties of FederateUser, checked under Spec *)

\* C1: FederateUser is a no-op exactly when the credentials carry a session
\* token: with a token it returns its input and sends nothing, without one it
\* sends one GetFederationToken request.
C1_FederateNoOpIffToken ==
    fedCall.called =>
        /\ fedCall.creds.SessionToken # ""
             => /\ fedCall.result = fedCall.creds
                /\ fedCall.err = ""
                /\ fedCall.requests = <<>>
                /\ stsCalls = <<>>
        /\ fedCall.creds.SessionToken = ""
             => /\ Len(fedCall.requests) = 1
                /\ fedCall.requests[1].operation = "GetFederationToken"
                /\ stsCalls = fedCall.requests

C1_Witness ==
    /\ fedCall.called
    /\ fedCall.creds.SessionToken # ""
    /\ fedCall.result = fedCall.creds
    /\ stsCalls = <<>>

Federated == fedCall.called /\ fedCall.requests # <<>>

SentDuration == fedCall.requests[1].input.DurationSeconds

\* C5: a requested duration that is not zero and below 900 seconds is sent as
\* exactly 900, and the DurationSeconds of a GetFederationToken request,
\* whenever it is set, is never below 900.
C5_DurationNeverBelowMinimum ==
    Federated =>
        /\ ~IsZero(fedCall.duration) /\ BelowMinDuration(fedCall.duration)
             => SentDuration = [value |-> MinDurationSeconds]
        /\ SentDuration # Nil => SentDuration.value >= MinDurationSeconds

\* C6: with user credentials and a requested duration of zero, the
\* GetFederationToken request carries no DurationSeconds.
C6_ZeroDurationUnset ==
    fedCall.called /\ fedCall.creds.SessionToken = "" /\ IsZero(fedCall.duration)
        => Len(fedCall.requests) = 1 /\ SentDuration = Nil

C6_Witness ==
    /\ Federated
    /\ IsZero(fedCall.duration)
    /\ SentDuration = Nil

----------------------------------------------------------------------------
(* Properties of GenerateLoginURL, checked under Spec *)

\* C7: an answer with a status other than 200 makes GenerateLoginURL fail with
\* an error that holds the status, and no URL is returned or handed on.
C7_Non200Fails ==
    genCall.called /\ genCall.reply.err = "" /\ genCall.reply.StatusCode # StatusOK
        => /\ genCall.url = Nil
           /\ genCall.err = "request failed: " \o genCall.reply.Status
           /\ err = genCall.err
           /\ pc = "done"
           /\ sink = Nil

C7_Witness ==
    /\ genCall.called
    /\ genCall.reply.StatusCode = 403
    /\ genCall.url = Nil
    /\ err = "request failed: 403 Forbidden"

\* C8: an answer with status 200 whose body is malformed or has no SigninToken
\* member makes GenerateLoginURL fail without a URL, and no login URL has an
\* empty SigninToken.
C8_MissingTokenFails ==
    LET answered == genCall.reply.err = "" /\ genCall.reply.StatusCode = StatusOK
        noToken  == \/ ~genCall.reply.body.syntax
                    \/ "SigninToken" \notin DOMAIN genCall.reply.body.obj
    IN  genCall.called =>
            /\ (answered /\ noToken) => (genCall.err # "" /\ genCall.url = Nil)
            /\ (genCall.url # Nil) => (ParseQuery(genCall.url.RawQuery).SigninToken # "")

SigninQuery == ParseQuery(genCall.requests[1].url.RawQuery)

\* C9: the getSigninToken request has Action=getSigninToken and Session, the
\* JSON object of exactly sessionId, sessionKey and sessionToken with the three
\* credential values; it has SessionDuration if and only if the duration is not
\* zero, and then with the duration in whole seconds.
C9_SigninRequestParameters ==
    genCall.called =>
        /\ Len(genCall.requests) = 1
        /\ SigninQuery.Action = "getSigninToken"
        /\ ParseQuery(SigninQuery.Session)
             = [sessionId |-> genCall.creds.AccessKeyID,
                sessionKey |-> genCall.creds.SecretAccessKey,
                sessionToken |-> genCall.creds.SessionToken]
        /\ "SessionDuration" \in DOMAIN SigninQuery <=> ~IsZero(genCall.duration)
        /\ DOMAIN SigninQuery \subseteq {"Action", "Session", "SessionDuration"}
        /\ ~IsZero(genCall.duration)
             => SigninQuery.SessionDuration = Itoa(TruncatedSeconds(genCall.duration))

\* C10: on success the URL is one of the federation endpoint the request went
\* to, and its parameters are exactly Action=login, Destination, the location
\* given, and SigninToken, the SigninToken of the answer.
C10_LoginURLParameters ==
    genCall.called /\ genCall.err = ""
        => /\ genCall.url # Nil
           /\ genCall.url.endpoint = genCall.requests[1].url.endpoint
           /\ ParseQuery(genCall.url.RawQuery)
                = [Action |-> "login",
                   Destination |-> genCall.location,
                   SigninToken |-> Member(genCall.reply.body.obj, "SigninToken")]

C10_Witness ==
    /\ genCall.called
    /\ genCall.err = ""
    /\ genCall.location = "https://example.com/x"
    /\ ParseQuery(genCall.url.RawQuery).SigninToken = "TOK123"
    /\ sink # Nil

----------------------------------------------------------------------------
(* Properties of the partition of the region *)

\* The partition a region is classified into: that of the endpoint resolver,
\* and aws where the resolver fails.
Classified(rgn) ==
    IF ResolveEndpoint(rgn).err = "" THEN ResolveEndpoint(rgn).PartitionID ELSE "aws"

\* C11: both steps of GenerateLoginURL, the getSigninToken request and the
\* login URL it returns, use the federation endpoint of the partition that
\* ResolveRegionPartition resolves for the region of the invocation; for a
\* region of aws-cn or aws-us-gov that is not the endpoint of the partition aws.
C11_PartitionFederationEndpoint ==
    LET p == ResolveRegionPartition(region)
    IN  (genCall.called /\ p.found) =>
            /\ \A i \in 1..Len(httpRequests) :
                  httpRequests[i].url.endpoint = p.federationURL
            /\ (genCall.url # Nil => genCall.url.endpoint = p.federationURL)

\* C12: ResolveRegionPartition gives each of the partitions aws, aws-cn and
\* aws-us-gov a console domain and a federation endpoint that no other of them
\* has, takes the partition aws when the region cannot be classified, and
\* returns found = FALSE with empty strings when the partition has no entry;
\* what it returns with found = TRUE is the entry of the classified partition.
C12_PartitionResolver ==
    partitionInfo # Nil =>
        /\ \A p, q \in {"aws", "aws-cn", "aws-us-gov"} :
              p # q => /\ partitionURLs[p].consoleDomain # partitionURLs[q].consoleDomain
                       /\ partitionURLs[p].federationURL # partitionURLs[q].federationURL
        /\ (ResolveEndpoint(region).err # "" =>
              partitionInfo.found /\ partitionInfo.partition = "aws")
        /\ (Classified(region) = "aws" =>
              partitionInfo = PartitionResult("aws", "console.aws.amazon.com",
                                  "https://signin.aws.amazon.com/federation", TRUE))
        /\ (Classified(region) = "aws-cn" =>
              partitionInfo = PartitionResult("aws-cn", "console.amazonaws.cn",
                                  "https://signin.amazonaws.cn/federation", TRUE))
        /\ (Classified(region) = "aws-us-gov" =>
              partitionInfo = PartitionResult("aws-us-gov", "console.amazonaws-us-gov.com",
                                  "https://signin.amazonaws-us-gov.com/federation", TRUE))
        /\ (Classified(region) \notin {"aws", "aws-cn", "aws-us-gov"} =>
              partitionInfo = PartitionResult("", "", "", FALSE))

\* A region of a partition without an entry has been resolved.
C12_Witness ==
    /\ partitionInfo # Nil
    /\ ~partitionInfo.found
    /\ Classified(region) = "aws-iso"

----------------------------------------------------------------------------
(* Properties of the aliases, checked under Spec *)

\* The text part occurs in the text.
Contains(text, part) ==
    \E i \in 1..(Len(text) - Len(part) + 1) : SubSeq(text, i, i + Len(part) - 1) = part

HasSuffix(text, suffix) ==
    /\ Len(text) >= Len(suffix)
    /\ SubSeq(text, Len(text) - Len(suffix) + 1, Len(text)) = suffix

\* The text with every occurrence of old replaced by new, from left to right.
RECURSIVE ReplaceText(_, _, _)
ReplaceText(text, old, new) ==
    IF Len(text) < Len(old) THEN text
    ELSE IF SubSeq(text, 1, Len(old)) = old
    THEN new \o ReplaceText(SubSeq(text, Len(old) + 1, Len(text)), old, new)
    ELSE SubSeq(text, 1, 1) \o ReplaceText(SubSeq(text, 2, Len(text)), old, new)

\* The host of a URL of the scheme https: what lies between "https://" and
\* the path, the query or the fragment.
Host(url) ==
    LET rest == SubSeq(url, Len("https://") + 1, Len(url))
        ends == {i \in 1..Len(rest) : SubSeq(rest, i, i) \in {"/", "?", "#"}}
    IN  IF ends = {} THEN rest
        ELSE SubSeq(rest, 1, (CHOOSE i \in ends : \A j \in ends : i <= j) - 1)

\* The host is the domain or lies below it.
BelongsTo(host, domain) == host = domain \/ HasSuffix(host, "." \o domain)

\* RunE has resolved the location alias: federation went well and the
\* position is past the resolution.
LocationResolved == fedCall.called /\ fedCall.err = "" /\ pc # "location"

\* The resolution found the alias: RunE went on to GenerateLoginURL.
LocationFound == LocationResolved /\ (pc # "done" \/ genCall.called)

\* C13: for every alias that begins with https://, resolveLocationAlias
\* returns found = TRUE and the alias itself, character for character,
\* whatever the region and whatever follows the prefix.
C13_UrlAliasVerbatim ==
    (LocationResolved /\ HasPrefix(flags.location, "https://")) =>
        (LocationFound /\ location = Join(flags.location))

\* C14: for every alias of the location table, resolveLocationAlias returns
\* found = TRUE and the template of the table with its placeholders replaced
\* by the region and by the console domain of the region's partition: no
\* placeholder remains, and the host of the result belongs to that domain.
C14_TableAliasSubstituted ==
    LET p == ResolveRegionPartition(region)
    IN  (LocationResolved /\ ~HasPrefix(flags.location, "https://")
            /\ Join(flags.location) \in DOMAIN locations /\ p.found) =>
            /\ LocationFound
            /\ \A placeholder \in {"{region}", "{console}", RegionPlaceholder} :
                  ~Contains(location, placeholder)
            /\ BelongsTo(Host(location), p.consoleDomain)

\* C15: for every alias that does not begin with https:// and is no key of
\* the location table, compared exactly, resolveLocationAlias returns
\* found = FALSE; RunE then fails with an error that names the alias, sends
\* no getSigninToken request and hands no URL to a sink.
C15_UnknownAliasFails ==
    (LocationResolved /\ ~HasPrefix(flags.location, "https://")
        /\ Join(flags.location) \notin DOMAIN locations) =>
        /\ pc = "done"
        /\ err = "could not resolve location \"" \o Join(flags.location) \o "\""
        /\ location = ""
        /\ genCall = NoCall
        /\ httpRequests = <<>>
        /\ sink = Nil

\* The alias Home, which differs from a key of the table in case only, has
\* been resolved.
C15_Witness ==
    /\ LocationResolved
    /\ Join(flags.location) = "Home"
    /\ pc = "done"
    /\ err # ""

\* C16: the policy handed to FederateUser is, for an alias of the policy
\* table, the ARN of the table in the partition of the region, and otherwise
\* the alias itself with {partition} replaced by that partition, so that an ARN
\* without the placeholder is handed over as it is.
C16_PolicyInPartition ==
    LET p == ResolveRegionPartition(region)
        alias == flags.federatePolicy
        template == IF alias \in DOMAIN policies
                    THEN "arn:{partition}" \o SubSeq(policies[alias], Len("arn:aws") + 1,
                                                     Len(policies[alias]))
                    ELSE alias
    IN  (fedCall.called /\ p.found) =>
            fedCall.policy = ReplaceText(template, "{partition}", p.partition)

----------------------------------------------------------------------------
(* Properties of the whole invocation, checked under Spec *)

CredentialsError ==
    IF flags.profile = "-" THEN FromReader(stdin).err ELSE config.err

\* Nothing after the named stage has run.
NothingAfter(stage) ==
    /\ pc = "done"
    /\ sink = Nil
    /\ genCall = NoCall
    /\ httpRequests = <<>>
    /\ stage \in {"credentials", "federate"} => location = ""
    /\ stage = "credentials" => (fedCall = NoCall /\ stsCalls = <<>>)

\* C18: no stage swallows an error: when the credentials, the federation, the
\* location alias or the login URL fails, RunE returns that error, no later
\* stage runs and no URL reaches a sink.
C18_ErrorsPropagate ==
    /\ (pc # "credentials" /\ CredentialsError # "") =>
          (err = CredentialsError /\ NothingAfter("credentials"))
    /\ (fedCall.called /\ fedCall.reply.err # "" /\ fedCall.creds.SessionToken = "") =>
          (err = fedCall.reply.err /\ NothingAfter("federate"))
    /\ (LocationResolved /\ ~HasPrefix(flags.location, "https://")
            /\ Join(flags.location) \notin DOMAIN locations) =>
          (err # "" /\ NothingAfter("location"))
    /\ (genCall.called
            /\ (genCall.reply.err # "" \/ genCall.reply.StatusCode # StatusOK
                   \/ ~genCall.reply.body.syntax)) =>
          (err # "" /\ pc = "done" /\ sink = Nil)

\* The profile could not be resolved.
C18_Witness ==
    /\ pc = "done"
    /\ flags.profile = "production"
    /\ config.err # ""
    /\ err = config.err

\* C19: the two entry points exclude each other: an invocation calls exactly
\* one of FromReader and FromConfig, FromReader if and only if the profile
\* argument is "-"; without a profile argument it calls FromConfig with the
\* empty name, which selects the default profile.
C19_OneEntryPoint ==
    /\ Len(credCalls) <= 1
    /\ pc # "credentials" =>
          /\ Len(credCalls) = 1
          /\ credCalls[1].entry \in {"FromReader", "FromConfig"}
          /\ credCalls[1].entry = "FromReader" <=> flags.profile = "-"
          /\ flags.profile = "" =>
                credCalls[1] = [entry |-> "FromConfig", profile |-> ""]

\* An invocation without a profile argument has obtained its credentials.
C19_Witness ==
    /\ pc = "federate"
    /\ flags.profile = ""
    /\ Len(credCalls) = 1

\* The Session parameter of the request the step sends.
SentSession == ParseQuery(httpRequests'[Len(httpRequests')].url.RawQuery)["Session"]

\* C20: when the getSigninToken request is sent, federation has been decided:
\* FederateUser has returned without an error and, if the credentials that
\* were resolved have no session token, one GetFederationToken call has been
\* answered before, and the Session parameter carries the credentials of that
\* answer and not those of the user.
C20_FederationBeforeSignin ==
    [][ httpRequests' # httpRequests =>
          /\ fedCall.called
          /\ fedCall.err = ""
          /\ fedCall.creds.SessionToken = "" =>
                /\ Len(stsCalls) = 1
                /\ fedCall.reply.err = ""
                /\ SentSession = SessionJSON(Returned(fedCall.reply.creds))
                /\ SentSession # SessionJSON(fedCall.creds) ]_vars

\* The credentials of a user were federated and the getSigninToken request sent.
C20_Witness ==
    /\ genCall.called
    /\ fedCall.called
    /\ fedCall.creds.SessionToken = ""
    /\ Len(stsCalls) = 1
    /\ Len(httpRequests) = 1

\* C21: whenever FederateUser returns without an error, the credentials it
\* returns carry a session token, on the path that returns its input and on
\* the path that returns the answer of GetFederationToken.
C21_FederatedCarryToken ==
    (fedCall.called /\ fedCall.err = "") =>
        (fedCall.result # Nil /\ fedCall.result.SessionToken # "")

\* FederateUser has returned the credentials of a GetFederationToken answer.
C21_Witness ==
    /\ fedCall.called
    /\ fedCall.err = ""
    /\ Len(fedCall.requests) = 1
    /\ fedCall.result.SessionToken # ""
    /\ fedCall.result # fedCall.creds

\* C23: the region the location is resolved with is the value of --region if
\* that is not empty, else the region of the profile if that is not empty,
\* else us-east-1; credentials from standard input come without a region of
\* a profile; and the region is never empty when the location is resolved.
C23_RegionPrecedence ==
    LET profileRegion == IF flags.profile = "-" THEN "" ELSE config.region
        expected == CASE flags.region # "" -> flags.region
                      [] flags.region = "" /\ profileRegion # "" -> profileRegion
                      [] OTHER -> "us-east-1"
    IN  /\ pc \in {"federate", "location"} => region = expected
        /\ LocationResolved => (region = expected /\ region # "")

\* The location was resolved with the region of the profile.
C23_Witness ==
    /\ LocationResolved
    /\ flags.region = ""
    /\ flags.profile # "-"
    /\ config.region = "eu-west-1"
    /\ region = "eu-west-1"

\* The int32 v is the count of seconds.
EqualsCount(v, seconds) ==
    /\ ~seconds.neg
    /\ seconds.hi < 2^15
    /\ v = seconds.hi * TwoPow16 + seconds.lo

\* C26: for every requested duration of at least 15 minutes the
\* GetFederationToken request carries DurationSeconds, equal to the duration
\* in whole seconds, whatever its size.
C26_DurationSentUncapped ==
    (Federated /\ ~IsZero(fedCall.duration) /\ ~BelowMinDuration(fedCall.duration)) =>
        /\ SentDuration # Nil
        /\ EqualsCount(SentDuration.value, TruncatedSeconds(fedCall.duration))

\* C27: when FromReader accepts a document through its second attempt, the
\* credentials it returns hold the top-level members of the document only,
\* and nothing the first attempt took from the Credentials object.
C27_FlatAttemptFromTopLevelOnly ==
    (ReaderReturned /\ err = "" /\ ~MatchesNested(stdin)) =>
        creds = ValuesOf(stdin.top)

\* C28: in a run that federates a user, the DurationSeconds of the
\* GetFederationToken request and the SessionDuration of the getSigninToken
\* request, whenever both are set, are the same number of seconds.
C28_DurationsAgree ==
    (Federated /\ genCall.called /\ SentDuration # Nil
        /\ "SessionDuration" \in DOMAIN SigninQuery) =>
        SigninQuery.SessionDuration = ToString(SentDuration.value)

\* The error of an alias that could not be resolved.
UnresolvedError == "could not resolve location \"" \o Join(flags.location) \o "\""

\* C29: the stages run in the order credentials, policy alias and
\* federation, location alias, getSigninToken request, each only after the
\* one before it has succeeded; a run with the credentials of a user and an
\* alias that cannot be resolved makes its GetFederationToken call and aborts
\* only then.
C29_StageOrder ==
    /\ fedCall.called => (Len(credCalls) = 1 /\ CredentialsError = "")
    /\ (location # "" \/ err = UnresolvedError) =>
          (fedCall.called /\ fedCall.err = "" /\ fedCall.policy # "")
    /\ (err = UnresolvedError /\ fedCall.called /\ fedCall.creds.SessionToken = "") =>
          (Len(stsCalls) = 1 /\ httpRequests = <<>>)
    /\ genCall.called => (location # "" /\ genCall.location = location)
    /\ sink # Nil => (genCall.called /\ genCall.err = "")

\* A user was federated before the alias turned out not to resolve.
C29_Witness ==
    /\ err = UnresolvedError
    /\ fedCall.called
    /\ fedCall.creds.SessionToken = ""
    /\ Len(stsCalls) = 1
    /\ pc = "done"

----------------------------------------------------------------------------
(* Properties of urlParams, checked under SpecUrl *)

\* The fields of a text between the occurrences of a separator of one
\* character.
RECURSIVE SplitOn(_, _)
SplitOn(text, sep) ==
    LET at == {i \in 1..Len(text) : SubSeq(text, i, i) = sep}
    IN  IF at = {} THEN <<text>>
        ELSE LET i == CHOOSE a \in at : \A b \in at : a <= b
             IN  <<SubSeq(text, 1, i - 1)>> \o SplitOn(SubSeq(text, i + 1, Len(text)), sep)

\* url.QueryUnescape: "+" is a space and "%XX" the character it stands for.
RECURSIVE QueryUnescape(_)
QueryUnescape(text) ==
    IF text = "" THEN ""
    ELSE LET c == SubSeq(text, 1, 1)
         IN  IF c = "%"
             THEN (CHOOSE x \in DOMAIN EscapeTable : EscapeTable[x] = SubSeq(text, 1, 3))
                     \o QueryUnescape(SubSeq(text, 4, Len(text)))
             ELSE (IF c = "+" THEN " " ELSE c) \o QueryUnescape(SubSeq(text, 2, Len(text)))

\* url.ParseQuery of the text of a query: the text is cut at every "&", each
\* part at its "=", and key and value are unescaped.
ParseQueryText(text) ==
    LET parts == IF text = "" THEN <<>> ELSE SplitOn(text, "&")
        Key(i) == QueryUnescape(SplitOn(parts[i], "=")[1])
    IN  [k \in {Key(i) : i \in 1..Len(parts)} |->
            LET i == CHOOSE j \in 1..Len(parts) : Key(j) = k
            IN  IF Len(SplitOn(parts[i], "=")) = 2
                THEN QueryUnescape(SplitOn(parts[i], "=")[2]) ELSE ""]

\* The query of the text of a URL of the federation endpoint.
QueryOf(text, rawURL) ==
    IF Len(text) <= Len(rawURL) THEN "" ELSE SubSeq(text, Len(rawURL) + 2, Len(text))

\* C22: urlParams is deterministic: for one endpoint and one parameter map it
\* yields the same URL, as a value and as a text, in whatever order the map is
\* visited; every value is escaped by itself and the parameters are joined
\* by "&", so that the text has one part for each parameter and parses back to
\* the map.
C22_UrlDeterministic ==
    urlCall # Nil =>
        /\ urlCall.urls[1] = urlCall.urls[2]
        /\ urlCall.texts[1] = urlCall.texts[2]
        /\ urlCall.urls[1] = urlParams(urlCall.rawURL, urlCall.values)
        /\ \A i \in 1..2 :
              LET query == QueryOf(urlCall.texts[i], urlCall.rawURL)
              IN  /\ SubSeq(urlCall.texts[i], 1, Len(urlCall.rawURL)) = urlCall.rawURL
                  /\ ParseQueryText(query) = urlCall.values
                  /\ query # "" =>
                        Len(SplitOn(query, "&")) = Cardinality(DOMAIN urlCall.values)

\* A map of three parameters was visited in two different orders.
C22_Witness ==
    /\ urlCall # Nil
    /\ Cardinality(DOMAIN urlCall.values) = 3
    /\ urlCall.orders[1] # urlCall.orders[2]
    /\ urlCall.orders[1][1] = "SigninToken"
    /\ urlCall.texts[1] = urlCall.texts[2]

----------------------------------------------------------------------------
(* Properties of the round trip, checked under SpecRoundTrip *)

\* GenerateLoginURL has returned either a URL or an error.
HasReturned == genCall.called /\ ((genCall.url # Nil) # (genCall.err # ""))

\* C24: every call of GenerateLoginURL ends with a URL or with an error: the
\* round trip, the read of the body included, takes no longer than the 15
\* seconds of the timeout, and when the timeout fires the request is
\* cancelled and the call returns an error and no URL.
C24_RoundTripTerminates ==
    /\ InFlight ~> HasReturned
    /\ [](roundTrip # Nil =>
            /\ roundTrip.elapsed <= Timeout
            /\ roundTrip.phase = "returned" => roundTrip.cancelled /\ HasReturned
            /\ roundTrip.timedOut =>
                  /\ roundTrip.cancelled
                  /\ genCall.called
                  /\ genCall.url = Nil
                  /\ genCall.err = DeadlineExceeded)

\* The timeout fired while the body of a 200 answer was read.
C24_Witness ==
    /\ roundTrip # Nil
    /\ roundTrip.timedOut
    /\ roundTrip.elapsed = Timeout
    /\ roundTrip.status = StatusOK
    /\ genCall.called
    /\ genCall.reply.body = CutBody
    /\ pc = "done"

====
